---- MODULE Spec2Model ----
(***************************************************************************)
(* A model of src/bmp.h: the BMP class (headers, pixel buffer, file codec, *)
(* pixel access, whole-image transforms) and the bmpDrawer class built on  *)
(* BMP::setPixel.  One BMP object is tracked at a time, together with the  *)
(* one file the program reads and writes.                                  *)
(*                                                                         *)
(* Numbers are the integers of the C++ code.  Every quantity the model     *)
(* computes stays below 2^31 for the images enumerated here, so the        *)
(* uint32_t arithmetic of the source never wraps; the four channel masks   *)
(* and the color space tag, which are only stored and written, are kept as *)
(* their four little-endian bytes.                                         *)
(***************************************************************************)
EXTENDS Integers, Sequences, FiniteSets, TLC

VARIABLES
    st,     \* "none": no object yet; "ok": the object img exists; "failed": the
            \* constructor threw; "crashed": the program was terminated
    img,    \* the members of the BMP object
    file,   \* the bytes of the file, NoFile while it does not exist
    op,     \* the last call and its arguments
    trace,  \* the drawPixel calls of the last drawer call, in order
    oob,    \* the last call accessed data outside the vector
    calls   \* the pixel-level calls the behaviour may still make

vars == <<st, img, file, op, trace, oob, calls>>

(***************************************************************************)
(* Bounds of the model.                                                    *)
(***************************************************************************)
MaxW == 4
MaxH == 2
MaxCalls == 1
MaxPaints == 2
MaxDim == 2
MaxOps == 2
MaxSide == 3
MaxCanvas == 4

(***************************************************************************)
(* Program constants.                                                      *)
(***************************************************************************)
SizeofFileHeader == 14
SizeofInfoHeader == 40
SizeofColorHeader == 84
BM == 19778

NoFile == <<-1>>

Min(a, b) == IF a < b THEN a ELSE b
Max(a, b) == IF a > b THEN a ELSE b

\* C++ integer division truncates toward zero.
TruncDiv(a, b) == IF a >= 0 THEN a \div b ELSE -((-a) \div b)

Filled(n) == [i \in 1..n |-> 205]

Zeros(n) == [i \in 1..n |-> 0]

(***************************************************************************)
(* The packed structs as bytes (#pragma pack(push, 1), little endian).     *)
(***************************************************************************)
LE16(n) == <<n % 256, (n \div 256) % 256>>
LE32(n) == <<n % 256, (n \div 256) % 256, (n \div 65536) % 256, (n \div 16777216) % 256>>

U16At(b, o) == b[o + 1] + 256 * b[o + 2]
\* A 32-bit field read as a signed value (two's complement).
S32At(b, o) ==
    b[o + 1] + 256 * b[o + 2] + 65536 * b[o + 3]
      + 16777216 * (IF b[o + 4] >= 128 THEN b[o + 4] - 256 ELSE b[o + 4])
\* A 32-bit unsigned field; the files enumerated here keep these below 2^31.
U32At(b, o) == b[o + 1] + 256 * b[o + 2] + 65536 * b[o + 3] + 16777216 * (b[o + 4] % 128)

BMPFileHeader ==
    [file_type |-> BM, file_size |-> 0, reserved1 |-> 0, reserved2 |-> 0, offset_data |-> 0]

BMPInfoHeader ==
    [size |-> 0, width |-> 0, height |-> 0, planes |-> 1, bit_count |-> 0,
     compression |-> 0, size_image |-> 0, x_pixels_per_meter |-> 0,
     y_pixels_per_meter |-> 0, colors_used |-> 0, colors_important |-> 0]

BMPColorHeader ==
    [red_mask |-> <<0, 0, 255, 0>>, green_mask |-> <<0, 255, 0, 0>>,
     blue_mask |-> <<255, 0, 0, 0>>, alpha_mask |-> <<0, 0, 0, 255>>,
     color_space_type |-> <<66, 71, 82, 115>>, unused |-> Zeros(64)]

FileHeaderBytes(h) ==
    LE16(h.file_type) \o LE32(h.file_size) \o LE16(h.reserved1) \o LE16(h.reserved2)
      \o LE32(h.offset_data)

InfoHeaderBytes(h) ==
    LE32(h.size) \o LE32(h.width) \o LE32(h.height) \o LE16(h.planes) \o LE16(h.bit_count)
      \o LE32(h.compression) \o LE32(h.size_image) \o LE32(h.x_pixels_per_meter)
      \o LE32(h.y_pixels_per_meter) \o LE32(h.colors_used) \o LE32(h.colors_important)

ColorHeaderBytes(h) ==
    h.red_mask \o h.green_mask \o h.blue_mask \o h.alpha_mask \o h.color_space_type
      \o h.unused

FileHeaderOf(b) ==
    [file_type |-> U16At(b, 0), file_size |-> U32At(b, 2), reserved1 |-> U16At(b, 6),
     reserved2 |-> U16At(b, 8), offset_data |-> U32At(b, 10)]

InfoHeaderOf(b) ==
    [size |-> U32At(b, 0), width |-> S32At(b, 4), height |-> S32At(b, 8),
     planes |-> U16At(b, 12), bit_count |-> U16At(b, 14), compression |-> U32At(b, 16),
     size_image |-> U32At(b, 20), x_pixels_per_meter |-> S32At(b, 24),
     y_pixels_per_meter |-> S32At(b, 28), colors_used |-> U32At(b, 32),
     colors_important |-> U32At(b, 36)]

ColorHeaderOf(b) ==
    [red_mask |-> SubSeq(b, 1, 4), green_mask |-> SubSeq(b, 5, 8),
     blue_mask |-> SubSeq(b, 9, 12), alpha_mask |-> SubSeq(b, 13, 16),
     color_space_type |-> SubSeq(b, 17, 20), unused |-> SubSeq(b, 21, 84)]

(***************************************************************************)
(* The members of a BMP object.  A default-constructed object has the      *)
(* member initializers of the structs, an empty vector, row_stride 0 and   *)
(* an uninitialized channels member (ch).                                  *)
(***************************************************************************)
BMPMembers(ch) ==
    [file_header |-> BMPFileHeader, bmp_info_header |-> BMPInfoHeader,
     bmp_color_header |-> BMPColorHeader, data |-> << >>, channels |-> ch,
     row_stride |-> 0]

NoImage == BMPMembers(0)

\* uint32_t make_stride_aligned(uint32_t align_stride)
RECURSIVE AlignLoop(_, _)
AlignLoop(new_stride, align_stride) ==
    IF new_stride % align_stride # 0 THEN AlignLoop(new_stride + 1, align_stride)
    ELSE new_stride

NoAlign(row_stride, align_stride) == row_stride

make_stride_aligned(row_stride, align_stride) == AlignLoop(row_stride, align_stride)

\* BMP(int32_t width, int32_t height, bool has_alpha): the width/height test
\* only prints; the members are set whatever the arguments.
BMPAlloc(width, height, has_alpha) ==
    LET ih0 == [BMPInfoHeader EXCEPT !.width = width, !.height = height]
    IN IF has_alpha
       THEN LET offset == SizeofFileHeader + SizeofInfoHeader + SizeofColorHeader
                stride == width * 4
                d == Zeros(stride * height)
            IN [file_header |-> [BMPFileHeader EXCEPT !.offset_data = offset,
                                                    !.file_size = offset + Len(d)],
                bmp_info_header |-> [ih0 EXCEPT !.size = SizeofInfoHeader + SizeofColorHeader,
                                               !.bit_count = 32, !.compression = 3],
                bmp_color_header |-> BMPColorHeader,
                data |-> d, channels |-> 32 \div 8, row_stride |-> stride]
       ELSE LET offset == SizeofFileHeader + SizeofInfoHeader
                stride == width * 3
                d == Zeros(stride * height)
                new_stride == make_stride_aligned(stride, 4)
            IN [file_header |-> [BMPFileHeader EXCEPT !.offset_data = offset,
                                    !.file_size = offset + Len(d) + height * (new_stride - stride)],
                bmp_info_header |-> [ih0 EXCEPT !.size = SizeofInfoHeader,
                                               !.bit_count = 24, !.compression = 0],
                bmp_color_header |-> BMPColorHeader,
                data |-> d, channels |-> 24 \div 8, row_stride |-> stride]

(***************************************************************************)
(* Accesses to the vector.  data[i] with i >= data.size() is undefined     *)
(* behaviour: the access is recorded (oob), a store lands outside the      *)
(* vector and leaves it as it is, and a load yields an arbitrary byte      *)
(* (junk).  What the program does afterwards is chosen in Outcomes.        *)
(***************************************************************************)
Mem(im) == [data |-> im.data, oob |-> FALSE]

St(m, i, v) ==
    IF i >= 0 /\ i < Len(m.data) THEN [m EXCEPT !.data[i + 1] = v]
    ELSE [m EXCEPT !.oob = TRUE]

Ld(m, i, junk) == IF i >= 0 /\ i < Len(m.data) THEN m.data[i + 1] ELSE junk

Touch(m, i) == IF i >= 0 /\ i < Len(m.data) THEN m ELSE [m EXCEPT !.oob = TRUE]

\* The states the program can be in after an operation that left the vector
\* as res.data: it carries on, or, when it accessed memory outside the vector,
\* it may also have been terminated.
Outcomes(im, res) ==
    {[st |-> "ok", img |-> [im EXCEPT !.data = res.data]]}
      \cup (IF res.oob THEN {[st |-> "crashed", img |-> NoImage]} ELSE {})

Color(r, g, b, alpha) == [r |-> r, g |-> g, b |-> b, alpha |-> alpha]

Colors == {Color(1, 2, 3, 4)}
Junk == {0, 170}
ClearBytes == {0, 9}
UninitChannels == {0, 3, 4}

\* uint32_t pos = channels * (y * bmp_info_header.width + x);
PixelPos(im, x, y) == im.channels * (y * im.bmp_info_header.width + x)

\* void setPixel(x, y, c): the range test only prints.
SetPixelOrderRGB(im, m, x, y, c) ==
    LET pos == PixelPos(im, x, y)
        m0 == St(m, pos + 0, c.r)
        m1 == St(m0, pos + 1, c.g)
        m2 == St(m1, pos + 2, c.b)
    IN IF im.channels = 4 THEN St(m2, pos + 3, c.alpha) ELSE m2

setPixel(im, m, x, y, c) ==
    LET pos == PixelPos(im, x, y)
        m0 == St(m, pos + 0, c.b)
        m1 == St(m0, pos + 1, c.g)
        m2 == St(m1, pos + 2, c.r)
    IN IF im.channels = 4 THEN St(m2, pos + 3, c.alpha) ELSE m2

\* Color getPixel(x, y) const: the value returned, and the accesses made.
getPixel(im, x, y, junk) ==
    LET pos == PixelPos(im, x, y)
        m == Mem(im)
    IN Color(Ld(m, pos + 2, junk), Ld(m, pos + 1, junk), Ld(m, pos + 0, junk),
             IF im.channels = 4 THEN Ld(m, pos + 3, junk) ELSE 255)

getPixelMem(im, x, y) ==
    LET pos == PixelPos(im, x, y)
        m2 == Touch(Touch(Touch(Mem(im), pos + 2), pos + 1), pos + 0)
    IN IF im.channels = 4 THEN Touch(m2, pos + 3) ELSE m2

\* void clear(const uint8_t c)
clear(im, c) == [i \in 1..Len(im.data) |-> c]

CopyFromUnchecked(im, image) == image.data

\* void CopyFrom(BMP& image): the vector of this object afterwards.
CopyFrom(im, image) ==
    IF /\ image.channels = im.channels
       /\ image.bmp_info_header.height = im.bmp_info_header.height
       /\ image.bmp_info_header.width = im.bmp_info_header.width
    THEN image.data
    ELSE im.data

\* The weights of BlackWhite in hundredths: the defaults 0.33, 0.33, 0.33 and
\* weights whose sum exceeds 1, for which the function only prints.
Weights == {<<33, 33, 33>>, <<50, 50, 50>>}

\* uint8_t grey = (float): the fraction is dropped; converting a value above
\* 255 is undefined.
ToU8(v, junk) == IF v >= 0 /\ v <= 255 THEN v ELSE junk

\* void BlackWhite(r, g, b): for y < height, for x < width.
RECURSIVE BlackWhiteLoop(_, _, _, _, _)
BlackWhiteLoop(im, m, k, w, junk) ==
    LET width == im.bmp_info_header.width
    IN IF width <= 0 \/ k >= im.bmp_info_header.height * width THEN m
       ELSE LET pos == im.channels * k
                t == Touch(Touch(Touch(m, pos + 0), pos + 1), pos + 2)
                grey == ToU8((Ld(m, pos + 0, junk) * w[3] + Ld(m, pos + 1, junk) * w[2]
                               + Ld(m, pos + 2, junk) * w[1]) \div 100, junk)
            IN CHOOSE r \in {BlackWhiteLoop(im, m2, k + 1, w, junk) :
                              m2 \in {St(St(St(t, pos + 0, grey), pos + 1, grey),
                                         pos + 2, grey)}} : TRUE

BlackWhite(im, w, junk) == BlackWhiteLoop(im, Mem(im), 0, w, junk)

ExchangeNoAux(m, pos1, pos2, channels, junk) ==
    LET a1 == St(Touch(m, pos2 + 0), pos1 + 0, Ld(m, pos2 + 0, junk))
        a2 == St(Touch(a1, pos2 + 1), pos1 + 1, Ld(a1, pos2 + 1, junk))
        a3 == St(Touch(a2, pos2 + 2), pos1 + 2, Ld(a2, pos2 + 2, junk))
        a4 == St(a3, pos2 + 0, Ld(a3, pos1 + 0, junk))
        a5 == St(a4, pos2 + 1, Ld(a4, pos1 + 1, junk))
        a6 == St(a5, pos2 + 2, Ld(a5, pos1 + 2, junk))
    IN IF channels = 4
       THEN LET a7 == St(Touch(a6, pos2 + 3), pos1 + 3, Ld(a6, pos2 + 3, junk))
            IN St(a7, pos2 + 3, Ld(a7, pos1 + 3, junk))
       ELSE a6

\* The exchange of two pixels in the body of FlipX and of FlipY.
Exchange(m, pos1, pos2, channels, junk) ==
    LET aux == Color(Ld(m, pos1 + 2, junk), Ld(m, pos1 + 1, junk), Ld(m, pos1 + 0, junk), 255)
        a0 == Touch(Touch(Touch(m, pos1 + 2), pos1 + 1), pos1 + 0)
        a1 == St(Touch(a0, pos2 + 0), pos1 + 0, Ld(a0, pos2 + 0, junk))
        a2 == St(Touch(a1, pos2 + 1), pos1 + 1, Ld(a1, pos2 + 1, junk))
        a3 == St(Touch(a2, pos2 + 2), pos1 + 2, Ld(a2, pos2 + 2, junk))
        a4 == St(a3, pos2 + 0, aux.b)
        a5 == St(a4, pos2 + 1, aux.g)
        a6 == St(a5, pos2 + 2, aux.r)
    IN IF channels = 4
       THEN LET alpha == Ld(a6, pos1 + 3, junk)
                a7 == St(Touch(Touch(a6, pos1 + 3), pos2 + 3), pos1 + 3, Ld(a6, pos2 + 3, junk))
            IN St(a7, pos2 + 3, alpha)
       ELSE a6

\* void FlipX(): for y < height, for x < width/2.
RECURSIVE FlipXLoop(_, _, _, _)
FlipXLoop(im, m, k, junk) ==
    LET width == im.bmp_info_header.width
        half == width \div 2
    IN IF half <= 0 \/ k >= im.bmp_info_header.height * half THEN m
       ELSE LET y == k \div half
                x == k % half
                pos1 == im.channels * (y * width + x)
                pos2 == im.channels * (y * width + width - 1 - x)
            IN CHOOSE r \in {FlipXLoop(im, m2, k + 1, junk) :
                              m2 \in {Exchange(m, pos1, pos2, im.channels, junk)}} : TRUE

FlipX(im, junk) == FlipXLoop(im, Mem(im), 0, junk)

\* void FlipY(): for x < width, for y < height/2.
RECURSIVE FlipYLoop(_, _, _, _)
FlipYLoop(im, m, k, junk) ==
    LET width == im.bmp_info_header.width
        height == im.bmp_info_header.height
        half == height \div 2
    IN IF half <= 0 \/ k >= width * half THEN m
       ELSE LET x == k \div half
                y == k % half
                pos1 == im.channels * (y * width + x)
                pos2 == im.channels * ((height - 1 - y) * width + x)
            IN CHOOSE r \in {FlipYLoop(im, m2, k + 1, junk) :
                              m2 \in {Exchange(m, pos1, pos2, im.channels, junk)}} : TRUE

FlipY(im, junk) == FlipYLoop(im, Mem(im), 0, junk)

(***************************************************************************)
(* The file streams.  A read of n bytes stores the bytes the file still    *)
(* has and leaves the rest of the destination (old) as it was; a short     *)
(* read sets failbit, after which reads and seeks do nothing.              *)
(***************************************************************************)
StreamRead(f, s, old, n) ==
    IF s.fail THEN [bytes |-> old, s |-> s]
    ELSE LET avail == Max(0, Len(f) - s.pos)
             k == Min(n, avail)
         IN [bytes |-> SubSeq(f, s.pos + 1, s.pos + k) \o SubSeq(old, k + 1, n),
             s |-> [pos |-> s.pos + k, fail |-> k < n]]

StreamSeek(s, offset) == IF s.fail THEN s ELSE [pos |-> offset, fail |-> FALSE]

\* A row of row_stride bytes stored at data.data() + at.
Blit(m, at, bytes) ==
    [data |-> [i \in 1..Len(m.data) |->
                 IF i - 1 >= at /\ i - 1 < at + Len(bytes) THEN bytes[i - at] ELSE m.data[i]],
     oob |-> m.oob \/ at + Len(bytes) > Len(m.data)]

RowAt(m, at, n, junk) == [i \in 1..n |-> Ld(m, at + i - 1, junk)]

\* The row loop of read(): a row into the vector, its padding into padding_row.
RECURSIVE ReadRows(_, _, _, _, _, _, _)
ReadRows(f, s, m, y, height, row_stride, padding) ==
    IF y >= height THEN m
    ELSE LET row == StreamRead(f, s, RowAt(m, row_stride * y, row_stride, 0), row_stride)
             pad == StreamRead(f, row.s, Zeros(padding), padding)
         IN CHOOSE r \in {ReadRows(f, s2, m2, y + 1, height, row_stride, padding) :
                            s2 \in {pad.s}, m2 \in {Blit(m, row_stride * y, row.bytes)}} : TRUE

\* void read(const char *fname) on the object BMP(const char *fname) has just
\* default-constructed (ch: the uninitialized channels member).  thrown: the
\* vector's resize threw std::length_error, which leaves the constructor.
ReadCall(f, ch) ==
    IF f = NoFile THEN [thrown |-> FALSE, oob |-> FALSE, img |-> BMPMembers(ch)]
    ELSE
    LET s0 == [pos |-> 0, fail |-> FALSE]
        r1 == StreamRead(f, s0, FileHeaderBytes(BMPFileHeader), SizeofFileHeader)
        fh == FileHeaderOf(r1.bytes)
        r2 == StreamRead(f, r1.s, InfoHeaderBytes(BMPInfoHeader), SizeofInfoHeader)
        ih == InfoHeaderOf(r2.bytes)
        r3 == IF ih.bit_count = 32 /\ ih.size >= SizeofInfoHeader + SizeofColorHeader
              THEN StreamRead(f, r2.s, ColorHeaderBytes(BMPColorHeader), SizeofColorHeader)
              ELSE [bytes |-> ColorHeaderBytes(BMPColorHeader), s |-> r2.s]
        s4 == StreamSeek(r3.s, fh.offset_data)
        size == IF ih.bit_count = 32 THEN SizeofInfoHeader + SizeofColorHeader
                ELSE SizeofInfoHeader
        offset_data == SizeofFileHeader + size
        n == TruncDiv(ih.width * ih.height * ih.bit_count, 8)
        row_stride == TruncDiv(ih.width * ih.bit_count, 8)
        new_stride == make_stride_aligned(row_stride, 4)
        padding == new_stride - row_stride
        m == IF n < 0 THEN [data |-> << >>, oob |-> FALSE]
             ELSE IF ih.width % 4 = 0
             THEN [data |-> StreamRead(f, s4, Zeros(n), n).bytes, oob |-> FALSE]
             ELSE ReadRows(f, s4, [data |-> Zeros(n), oob |-> FALSE], 0, ih.height,
                           row_stride, padding)
        file_size == IF ih.width % 4 = 0 THEN offset_data + n
                     ELSE offset_data + n + ih.height * padding
    IN [thrown |-> n < 0,
        oob |-> m.oob,
        img |-> [file_header |-> [fh EXCEPT !.offset_data = offset_data,
                                            !.file_size = file_size],
                 bmp_info_header |-> [ih EXCEPT !.size = size],
                 bmp_color_header |-> ColorHeaderOf(r3.bytes),
                 data |-> m.data,
                 channels |-> ih.bit_count \div 8,
                 row_stride |-> IF ih.width % 4 = 0 THEN 0 ELSE row_stride]]

\* void write_headers(std::ofstream &of)
write_headers(im) ==
    FileHeaderBytes(im.file_header) \o InfoHeaderBytes(im.bmp_info_header)
      \o (IF im.bmp_info_header.bit_count = 32 THEN ColorHeaderBytes(im.bmp_color_header)
          ELSE << >>)

\* void write_headers_and_data(std::ofstream &of)
write_headers_and_data(im) == write_headers(im) \o im.data

WriteRowsUnpadded(im, y, padding, junk) == im.data

\* The row loop of write(): each row followed by padding_row.
RECURSIVE WriteRows(_, _, _, _)
WriteRows(im, y, padding, junk) ==
    IF y >= im.bmp_info_header.height THEN << >>
    ELSE RowAt(Mem(im), im.row_stride * y, im.row_stride, junk) \o Zeros(padding)
           \o WriteRows(im, y + 1, padding, junk)

\* void write(const char *fname): the bytes of the file it leaves.
write(im, junk) ==
    IF im.bmp_info_header.bit_count = 32 THEN write_headers_and_data(im)
    ELSE IF im.bmp_info_header.bit_count = 24
    THEN IF im.bmp_info_header.width % 4 = 0 THEN write_headers_and_data(im)
         ELSE LET new_stride == make_stride_aligned(im.row_stride, 4)
              IN write_headers(im) \o WriteRows(im, 0, new_stride - im.row_stride, junk)
    ELSE << >>

\* Whether the row loop of write() reads past the end of the vector.
WriteOob(im) ==
    /\ im.bmp_info_header.bit_count = 24
    /\ im.bmp_info_header.width % 4 # 0
    /\ im.bmp_info_header.height > 0
    /\ im.row_stride * im.bmp_info_header.height > Len(im.data)

(***************************************************************************)
(* The files handed to read(): the file as write() left it, or that file   *)
(* with one defect.                                                        *)
(***************************************************************************)
Patch(f, o, bytes) ==
    [i \in 1..Len(f) |-> IF i - 1 >= o /\ i - 1 < o + Len(bytes) THEN bytes[i - o] ELSE f[i]]

HasHeaders(f) == f # NoFile /\ Len(f) >= SizeofFileHeader + SizeofInfoHeader

TamperKinds == {"none", "magic", "negheight", "bitcount", "nomask", "cut1", "cutall"}

CanTamper(kind, f) ==
    CASE kind = "none" -> TRUE
      [] kind = "magic" -> HasHeaders(f)
      [] kind = "negheight" ->
           HasHeaders(f) /\ InfoHeaderOf(SubSeq(f, 15, 54)).height > 0
             /\ InfoHeaderOf(SubSeq(f, 15, 54)).width > 0
      [] kind = "bitcount" -> HasHeaders(f)
      [] kind = "nomask" -> HasHeaders(f) /\ InfoHeaderOf(SubSeq(f, 15, 54)).bit_count = 32
      [] kind = "cut1" -> HasHeaders(f) /\ Len(f) > FileHeaderOf(SubSeq(f, 1, 14)).offset_data
      [] kind = "cutall" -> HasHeaders(f) /\ Len(f) > FileHeaderOf(SubSeq(f, 1, 14)).offset_data + 1

Tamper(kind, f) ==
    CASE kind = "none" -> f
      [] kind = "magic" -> Patch(f, 0, <<88, 77>>)
      [] kind = "negheight" -> Patch(f, 22, LE32(-InfoHeaderOf(SubSeq(f, 15, 54)).height))
      [] kind = "bitcount" -> Patch(f, 28, LE16(16))
      [] kind = "nomask" -> Patch(f, 14, LE32(SizeofInfoHeader))
      [] kind = "cut1" -> SubSeq(f, 1, Len(f) - 1)
      [] kind = "cutall" -> SubSeq(f, 1, FileHeaderOf(SubSeq(f, 1, 14)).offset_data)

(***************************************************************************)
(* bmpDrawer: every primitive is a sequence of drawPixel calls, each a     *)
(* setPixel on the image.                                                  *)
(***************************************************************************)
RECURSIVE DrawPixels(_, _, _, _, _)
DrawPixels(im, m, pixels, k, c) ==
    IF k > Len(pixels) THEN m
    ELSE CHOOSE r \in {DrawPixels(im, m2, pixels, k + 1, c) :
                         m2 \in {setPixel(im, m, pixels[k][1], pixels[k][2], c)}} : TRUE

\* while (e >= 0) { y1 += sy; e -= (dx << 1); }
RECURSIVE ErrLoop(_, _, _, _)
ErrLoop(y1, e, dx, sy) ==
    IF e >= 0 THEN ErrLoop(y1 + sy, e - 2 * dx, dx, sy) ELSE <<y1, e>>

\* for (int32_t i = 0; i < dx; ++i) of the general case, x1/y1 already swapped
\* when steep; acc: the drawPixel calls made so far.
RECURSIVE DDALoop(_, _, _, _, _, _, _, _, _, _)
DDALoop(i, x1, y1, e, dx, dy, sx, sy, steep, acc) ==
    IF i >= dx THEN acc
    ELSE LET px == IF steep THEN <<y1, x1>> ELSE <<x1, y1>>
             ye == ErrLoop(y1, e, dx, sy)
         IN DDALoop(i + 1, x1 + sx, ye[1], ye[2] + 2 * dy, dx, dy, sx, sy, steep,
                    Append(acc, px))

Abs(n) == IF n < 0 THEN -n ELSE n

DDAOpenEnd(x1, y1, x2, y2) ==
    LET sx == IF x2 - x1 > 0 THEN 1 ELSE -1
        sy == IF y2 - y1 > 0 THEN 1 ELSE -1
        dx == Abs(x2 - x1)
        dy == Abs(y2 - y1)
    IN IF dy > dx
       THEN DDALoop(0, y1, x1, 2 * dx - dy, dy, dx, sy, sx, TRUE, << >>)
       ELSE DDALoop(0, x1, y1, 2 * dy - dx, dx, dy, sx, sy, FALSE, << >>)

\* The general case of drawLine: the loop, then drawPixel(x2, y2, c).
DDA(x1, y1, x2, y2) ==
    LET sx == IF x2 - x1 > 0 THEN 1 ELSE -1
        sy == IF y2 - y1 > 0 THEN 1 ELSE -1
        dx == Abs(x2 - x1)
        dy == Abs(y2 - y1)
    IN Append(IF dy > dx
              THEN DDALoop(0, y1, x1, 2 * dx - dy, dy, dx, sy, sx, TRUE, << >>)
              ELSE DDALoop(0, x1, y1, 2 * dy - dx, dx, dy, sx, sy, FALSE, << >>),
              <<x2, y2>>)

AxisClosed(a, b, fixed, horizontal) ==
    [i \in 1..(Max(a, b) - Min(a, b) + 1) |->
        IF horizontal THEN <<Min(a, b) + i - 1, fixed>> ELSE <<fixed, Min(a, b) + i - 1>>]

\* The horizontal and the vertical case of drawLine: after the swap,
\* for (i = 0; i < (b - a); i++) drawPixel(a + i, ...).
Axis(a, b, fixed, horizontal) ==
    [i \in 1..(Max(a, b) - Min(a, b)) |->
        IF horizontal THEN <<Min(a, b) + i - 1, fixed>> ELSE <<fixed, Min(a, b) + i - 1>>]

\* void drawLine(x1, y1, x2, y2, c): its drawPixel calls, in order.
drawLine(x1, y1, x2, y2) ==
    IF x1 = x2 /\ y1 = y2 THEN << <<x1, y1>> >>
    ELSE IF y1 = y2 THEN Axis(x1, x2, y1, TRUE)
    ELSE IF x1 = x2 THEN Axis(y1, y2, x1, FALSE)
    ELSE DDA(x1, y1, x2, y2)

\* The loops of drawRegion and eraseRegion: rows yy in [y, y+h), xx in [x, x+w).
Region(x, y, w, h) ==
    [i \in 1..(w * h) |-> <<x + ((i - 1) % w), y + ((i - 1) \div w)>>]

\* No object and no file yet; n pixel-level calls may be made.
Start(n) ==
    /\ st = "none"
    /\ img = NoImage
    /\ file = NoFile
    /\ op = [name |-> "init", kind |-> "", args |-> << >>]
    /\ trace = << >>
    /\ oob = FALSE
    /\ calls = n

Init == Start(MaxCalls)

\* BMP(width, height, has_alpha) with the dimensions taken from 0..maxw, 0..maxh.
AllocateIn(maxw, maxh) ==
    /\ st = "none"
    /\ \E width \in 0..maxw, height \in 0..maxh, has_alpha \in BOOLEAN :
         /\ img' = BMPAlloc(width, height, has_alpha)
         /\ op' = [name |-> "BMP", kind |-> "",
                   args |-> <<width, height, IF has_alpha THEN 1 ELSE 0>>]
    /\ st' = "ok"
    /\ trace' = << >>
    /\ oob' = FALSE
    /\ UNCHANGED <<file, calls>>

Allocate == AllocateIn(MaxW, MaxH)

AllocateSquare == AllocateIn(MaxSide, MaxSide)

\* An operation on the object leaves it in one of Outcomes(img, result).
Becomes(result) ==
    \E res \in {result} :
        \E out \in Outcomes(img, res) :
            /\ st' = out.st
            /\ img' = out.img
            /\ oob' = res.oob

SetPixel ==
    /\ st = "ok"
    /\ calls > 0
    /\ \E x \in 0..img.bmp_info_header.width, y \in 0..img.bmp_info_header.height, c \in Colors :
         /\ Becomes(setPixel(img, Mem(img), x, y, c))
         /\ op' = [name |-> "setPixel", kind |-> "", args |-> <<x, y, c.r, c.g, c.b, c.alpha>>]
    /\ calls' = calls - 1
    /\ trace' = << >>
    /\ UNCHANGED file

GetPixel ==
    /\ st = "ok"
    /\ calls > 0
    /\ \E x \in 0..img.bmp_info_header.width, y \in 0..img.bmp_info_header.height :
         \E junk \in (IF getPixelMem(img, x, y).oob THEN Junk ELSE {0}) :
            LET c == getPixel(img, x, y, junk)
            IN /\ Becomes(getPixelMem(img, x, y))
               /\ op' = [name |-> "getPixel", kind |-> "",
                         args |-> <<x, y, c.r, c.g, c.b, c.alpha>>]
    /\ calls' = calls - 1
    /\ trace' = << >>
    /\ UNCHANGED file

Clear ==
    /\ st = "ok"
    /\ calls > 0
    /\ \E c \in ClearBytes :
         /\ img' = [img EXCEPT !.data = clear(img, c)]
         /\ op' = [name |-> "clear", kind |-> "", args |-> <<c>>]
    /\ calls' = calls - 1
    /\ trace' = << >>
    /\ oob' = FALSE
    /\ UNCHANGED <<st, file>>

FlipXStep ==
    /\ st = "ok"
    /\ \E junk \in (IF FlipX(img, 0).oob THEN Junk ELSE {0}) : Becomes(FlipX(img, junk))
    /\ op' = [name |-> "FlipX", kind |-> "", args |-> << >>]
    /\ trace' = << >>
    /\ UNCHANGED <<file, calls>>

FlipYStep ==
    /\ st = "ok"
    /\ \E junk \in (IF FlipY(img, 0).oob THEN Junk ELSE {0}) : Becomes(FlipY(img, junk))
    /\ op' = [name |-> "FlipY", kind |-> "", args |-> << >>]
    /\ trace' = << >>
    /\ UNCHANGED <<file, calls>>

\* The objects handed to CopyFrom: built by BMP(width, height, has_alpha) and
\* filled by clear(c).
Others ==
    {[BMPAlloc(width, height, has_alpha) EXCEPT
         !.data = clear(BMPAlloc(width, height, has_alpha), c)] :
       width \in 0..MaxDim, height \in 0..MaxDim, has_alpha \in BOOLEAN,
       c \in ClearBytes \ {0}}

CopyFromStep ==
    /\ st = "ok"
    /\ calls > 0
    /\ \E image \in Others :
         /\ img' = [img EXCEPT !.data = CopyFrom(img, image)]
         /\ op' = [name |-> "CopyFrom",
                   kind |-> IF CopyFrom(img, image) = image.data THEN "match" ELSE "mismatch",
                   args |-> <<image.bmp_info_header.width, image.bmp_info_header.height,
                              image.channels>>]
    /\ calls' = calls - 1
    /\ trace' = << >>
    /\ oob' = FALSE
    /\ UNCHANGED <<st, file>>

BlackWhiteStep ==
    /\ st = "ok"
    /\ calls > 0
    /\ \E w \in Weights :
         /\ \E junk \in (IF BlackWhite(img, w, 0).oob THEN Junk ELSE {0}) :
              Becomes(BlackWhite(img, w, junk))
         /\ op' = [name |-> "BlackWhite", kind |-> "", args |-> w]
    /\ calls' = calls - 1
    /\ trace' = << >>
    /\ UNCHANGED file

\* write(fname) on the tracked object.
Encode ==
    /\ st = "ok"
    /\ \E junk \in (IF WriteOob(img) THEN Junk ELSE {0}) :
         \E out \in Outcomes(img, [data |-> img.data, oob |-> WriteOob(img)]) :
            /\ file' = write(img, junk)
            /\ st' = out.st
            /\ img' = out.img
    /\ oob' = WriteOob(img)
    /\ op' = [name |-> "write", kind |-> "", args |-> << >>]
    /\ trace' = << >>
    /\ UNCHANGED calls

\* BMP(fname): a new object, built from the file or a defective copy of it.
DecodeOf(kinds) ==
    /\ st # "crashed"
    /\ \E kind \in kinds, ch \in UninitChannels :
         /\ CanTamper(kind, file)
         /\ file = NoFile \/ ch = 0
         /\ \E res \in {ReadCall(Tamper(kind, file), ch)} :
              /\ st' = IF res.thrown THEN "failed" ELSE "ok"
              /\ img' = IF res.thrown THEN NoImage ELSE res.img
              /\ oob' = res.oob
         /\ op' = [name |-> "read", kind |-> kind, args |-> << >>]
    /\ trace' = << >>
    /\ UNCHANGED <<file, calls>>

Decode == DecodeOf(TamperKinds)

\* BMP(fname) of the file as write() left it.
DecodeIntact == DecodeOf({"none"})

Next ==
    \/ Allocate
    \/ SetPixel
    \/ Clear
    \/ Encode
    \/ Decode

Spec == Init /\ [][Next]_vars

(***************************************************************************)
(* The pixel store alone, on images up to MaxSide x MaxSide.               *)
(***************************************************************************)
NextPixel ==
    \/ AllocateSquare
    \/ SetPixel
    \/ GetPixel
    \/ Clear
    \/ FlipXStep
    \/ FlipYStep

InitPixel == Start(MaxPaints)

SpecPixel == InitPixel /\ [][NextPixel]_vars

(***************************************************************************)
(* Every operation of the class, on images up to MaxDim x MaxDim.          *)
(***************************************************************************)
AllocateSmall == AllocateIn(MaxDim, MaxDim)

NextOps ==
    \/ AllocateSmall
    \/ DecodeIntact
    \/ SetPixel
    \/ Clear
    \/ CopyFromStep
    \/ BlackWhiteStep
    \/ FlipXStep
    \/ FlipYStep
    \/ Encode

InitOps == Start(MaxOps)

SpecOps == InitOps /\ [][NextOps]_vars

(***************************************************************************)
(* The drawer.  Each primitive is applied once to a canvas: an image       *)
(* BMP(width, height, has_alpha) that clear(c) has filled, with the        *)
(* arguments of the call inside the canvas.                                *)
(***************************************************************************)
InitDraw ==
    /\ st = "ok"
    /\ \E width \in 1..MaxCanvas, height \in 1..MaxCanvas, has_alpha \in BOOLEAN,
          c \in ClearBytes :
         /\ img = [BMPAlloc(width, height, has_alpha) EXCEPT
                     !.data = clear(BMPAlloc(width, height, has_alpha), c)]
         /\ op = [name |-> "clear", kind |-> "", args |-> <<c>>]
    /\ file = NoFile
    /\ trace = << >>
    /\ oob = FALSE
    /\ calls = 1

Xs == 0..(img.bmp_info_header.width - 1)
Ys == 0..(img.bmp_info_header.height - 1)

\* One call of the drawer: the drawPixel calls `pixels` with color c.
Draws(name, args, pixels, c) ==
    /\ st = "ok"
    /\ calls > 0
    /\ Becomes(DrawPixels(img, Mem(img), pixels, 1, c))
    /\ op' = [name |-> name, kind |-> "", args |-> args]
    /\ trace' = pixels
    /\ calls' = calls - 1
    /\ UNCHANGED file

DrawPixel ==
    \E x \in Xs, y \in Ys, c \in Colors :
        Draws("drawPixel", <<x, y>>, << <<x, y>> >>, c)

DrawLine ==
    \E x1 \in Xs, y1 \in Ys, x2 \in Xs, y2 \in Ys, c \in Colors :
        Draws("drawLine", <<x1, y1, x2, y2>>, drawLine(x1, y1, x2, y2), c)

DrawRegion ==
    \E x \in Xs, y \in Ys, c \in Colors :
        \E w \in 0..(img.bmp_info_header.width - x), h \in 0..(img.bmp_info_header.height - y) :
            Draws("drawRegion", <<x, y, w, h>>, Region(x, y, w, h), c)

\* erasePixel: the channel test only prints.
ErasePixel ==
    \E x \in Xs, y \in Ys :
        Draws("erasePixel", <<x, y>>, << <<x, y>> >>, Color(0, 0, 0, 0))

\* eraseRegion: the channel test only prints.
EraseRegion ==
    \E x \in Xs, y \in Ys :
        \E w \in 0..(img.bmp_info_header.width - x), h \in 0..(img.bmp_info_header.height - y) :
            Draws("eraseRegion", <<x, y, w, h>>, Region(x, y, w, h), Color(0, 0, 0, 0))

NextDraw ==
    \/ DrawPixel
    \/ DrawLine
    \/ DrawRegion
    \/ ErasePixel
    \/ EraseRegion

SpecDraw == InitDraw /\ [][NextDraw]_vars

(***************************************************************************)
(* Properties.                                                             *)
(***************************************************************************)
Width == img.bmp_info_header.width
Height == img.bmp_info_header.height
BitCount == img.bmp_info_header.bit_count

\* width * channels rounded up to the next multiple of 4.
PaddedStride(width, channels) == ((width * channels + 3) \div 4) * 4

\* C3: Allocate(w, h, hasAlpha) with w > 0 and h > 0 yields an all-zero buffer of
\* w*h*4 bytes with 32 bits per pixel, compression 3 and 4 channels when hasAlpha,
\* and of w*h*3 bytes with 24 bits per pixel, compression 0 and 3 channels otherwise.
AllocateZeroFilled ==
    (op.name = "BMP" /\ op.args[1] > 0 /\ op.args[2] > 0) =>
        LET n == IF op.args[3] = 1 THEN 4 ELSE 3
        IN /\ st = "ok"
           /\ Len(img.data) = op.args[1] * op.args[2] * n
           /\ \A i \in 1..Len(img.data) : img.data[i] = 0
           /\ BitCount = 8 * n
           /\ img.bmp_info_header.compression = (IF n = 4 THEN 3 ELSE 0)
           /\ img.channels = n

AllocateZeroFilledWitness ==
    /\ op.name = "BMP"
    /\ op.args \in {<<3, 2, 1>>, <<3, 2, 0>>}
    /\ Len(img.data) \in {24, 18}

\* C5: Allocate with width <= 0 or height <= 0 fails and constructs no image.
AllocateRejectsNonPositive ==
    (op.name = "BMP" /\ (op.args[1] <= 0 \/ op.args[2] <= 0)) => st # "ok"

\* C4: Decode of a file with a magic other than "BM", a negative height, a bit
\* depth other than 24 or 32, 32 bits without the color header, or a truncated
\* pixel section fails and produces no image.
DecodeRejectsDefects ==
    (op.name = "read" /\ op.kind \in TamperKinds \ {"none"}) => st = "failed"

\* C2: for an image whose width is not a multiple of 4 (24 or 32 bits), write()
\* leaves offset_data + height * paddedStride bytes, and that is the header's
\* file_size.
EncodedSizePadded ==
    (op.name = "write" /\ st = "ok" /\ Width % 4 # 0 /\ BitCount \in {24, 32}) =>
        LET size == img.file_header.offset_data + Height * PaddedStride(Width, BitCount \div 8)
        IN /\ Len(file) = size
           /\ img.file_header.file_size = size
           /\ U32At(file, 2) = size

EncodedSizePaddedWitness ==
    /\ op.name = "write"
    /\ st = "ok"
    /\ Width = 3
    /\ Height = 2
    /\ BitCount = 24
    /\ Len(file) = 54 + 2 * 12

\* C1: decoding the bytes write() produced for a 24- or 32-bit image of positive
\* width and height yields the same width, height, bit depth, header size,
\* offset_data, file_size and pixel bytes.
RoundTrip ==
    [][(/\ op'.name = "read"
        /\ op'.kind = "none"
        /\ st = "ok"
        /\ Width > 0
        /\ Height > 0
        /\ BitCount \in {24, 32}
        /\ file = write(img, 0))
       => (/\ st' = "ok"
           /\ img'.bmp_info_header.width = Width
           /\ img'.bmp_info_header.height = Height
           /\ img'.bmp_info_header.bit_count = BitCount
           /\ img'.bmp_info_header.size = img.bmp_info_header.size
           /\ img'.file_header.offset_data = img.file_header.offset_data
           /\ img'.file_header.file_size = img.file_header.file_size
           /\ img'.data = img.data)]_vars

RoundTripWitness ==
    /\ op.name = "read"
    /\ op.kind = "none"
    /\ st = "ok"
    /\ Width = 3
    /\ Height = 2
    /\ file = write(img, 0)
    /\ \E i \in 1..Len(img.data) : i > Width * img.channels /\ img.data[i] # 0

\* The arguments of the last call.
Arg(i) == op.args[i]

\* C9: setPixel(x, y, c) with x < width and y < height writes blue, green, red
\* (and alpha when channels is 4) at offset channels*(y*width + x), leaves every
\* other byte and the headers as they were, and getPixel(x, y) then returns the
\* same r, g, b, with the same alpha for 4 channels and 255 for 3.
SetPixelFrame ==
    [][(/\ op'.name = "setPixel"
        /\ op'.args[1] < Width
        /\ op'.args[2] < Height)
       => LET x == op'.args[1]
              y == op'.args[2]
              c == Color(op'.args[3], op'.args[4], op'.args[5], op'.args[6])
              pos == img.channels * (y * Width + x)
              bytes == IF img.channels = 4 THEN <<c.b, c.g, c.r, c.alpha>>
                       ELSE <<c.b, c.g, c.r>>
          IN /\ st' = "ok"
             /\ ~oob'
             /\ Len(img'.data) = Len(img.data)
             /\ \A i \in 1..Len(img.data) :
                    img'.data[i] = IF i - 1 >= pos /\ i - 1 < pos + img.channels
                                   THEN bytes[i - pos] ELSE img.data[i]
             /\ img'.file_header = img.file_header
             /\ img'.bmp_info_header = img.bmp_info_header
             /\ img'.bmp_color_header = img.bmp_color_header
             /\ img'.channels = img.channels
             /\ getPixel(img', x, y, 0) =
                    Color(c.r, c.g, c.b, IF img.channels = 4 THEN c.alpha ELSE 255)]_vars

SetPixelFrameWitness ==
    /\ op.name = "setPixel"
    /\ st = "ok"
    /\ Arg(1) = 1
    /\ Arg(2) = 2
    /\ Width = 3
    /\ Height = 3
    /\ img.channels = 4
    /\ SubSeq(img.data, 29, 32) = <<3, 2, 1, 4>>

\* C6: FlipX applied twice, and FlipY applied twice, return the pixel buffer to
\* what it was, for 3 and 4 channels and odd and even dimensions.
FlipTwice ==
    [][(op'.name \in {"FlipX", "FlipY"} /\ img.channels \in {3, 4})
       => /\ st' = "ok"
          /\ op'.name = "FlipX" => FlipX(img', 0).data = img.data
          /\ op'.name = "FlipY" => FlipY(img', 0).data = img.data]_vars

\* A flip that changed a 3x3 image, after an earlier flip.
FlipTwiceWitness ==
    /\ op.name \in {"FlipX", "FlipY"}
    /\ st = "ok"
    /\ Width = 3
    /\ Height = 3
    /\ img.channels = 4
    /\ FlipX(img, 0).data # img.data
    /\ FlipY(img, 0).data # img.data

\* The pixels of the canvas that hold color c.
Holding(c) ==
    {p \in Xs \X Ys :
        LET q == getPixel(img, p[1], p[2], 0)
        IN q.r = c.r /\ q.g = c.g /\ q.b = c.b}

Drawn == {trace[i] : i \in 1..Len(trace)}

LineColor == Color(1, 2, 3, 4)

\* C8: a horizontal drawLine (y1 = y2, x1 # x2) writes exactly the pixels
\* (x, y1) with min(x1,x2) <= x < max(x1,x2), a vertical one exactly (x1, y) with
\* min(y1,y2) <= y < max(y1,y2), whichever endpoint comes first.
AxisLineHalfOpen ==
    (op.name = "drawLine" /\ st = "ok") =>
        /\ (Arg(2) = Arg(4) /\ Arg(1) # Arg(3)) =>
              /\ Drawn = {<<x, Arg(2)>> : x \in Min(Arg(1), Arg(3))..(Max(Arg(1), Arg(3)) - 1)}
              /\ Holding(LineColor) = Drawn
        /\ (Arg(1) = Arg(3) /\ Arg(2) # Arg(4)) =>
              /\ Drawn = {<<Arg(1), y>> : y \in Min(Arg(2), Arg(4))..(Max(Arg(2), Arg(4)) - 1)}
              /\ Holding(LineColor) = Drawn

AxisLineHalfOpenWitness ==
    /\ op.name = "drawLine"
    /\ st = "ok"
    /\ op.args = <<3, 1, 0, 1>>
    /\ Holding(LineColor) = {<<0, 1>>, <<1, 1>>, <<2, 1>>}

Count(p) == Cardinality({i \in 1..Len(trace) : trace[i] = p})

\* C10: a drawLine whose endpoints differ in x and in y writes both endpoints
\* once each, one pixel for each coordinate value along the dominant axis
\* (max(|dx|,|dy|) + 1 pixels), and consecutive pixels differ by at most 1 in
\* each coordinate.
GeneralLine ==
    (op.name = "drawLine" /\ Arg(1) # Arg(3) /\ Arg(2) # Arg(4)) =>
        LET dx == Abs(Arg(3) - Arg(1))
            dy == Abs(Arg(4) - Arg(2))
            axis == IF dy > dx THEN 2 ELSE 1
            from == Min(Arg(axis), Arg(axis + 2))
            to == Max(Arg(axis), Arg(axis + 2))
        IN /\ st = "ok"
           /\ Len(trace) = Max(dx, dy) + 1
           /\ Count(<<Arg(1), Arg(2)>>) = 1
           /\ Count(<<Arg(3), Arg(4)>>) = 1
           /\ \A v \in from..to :
                  Cardinality({i \in 1..Len(trace) : trace[i][axis] = v}) = 1
           /\ \A i \in 1..(Len(trace) - 1) :
                  /\ Abs(trace[i + 1][1] - trace[i][1]) <= 1
                  /\ Abs(trace[i + 1][2] - trace[i][2]) <= 1
           /\ Holding(LineColor) = Drawn

GeneralLineWitness ==
    /\ op.name = "drawLine"
    /\ st = "ok"
    /\ op.args = <<3, 0, 2, 3>>
    /\ Len(trace) = 4

\* C7: erasePixel and eraseRegion on an image of 3 channels leave every byte of
\* the pixel buffer as it was.
EraseNeedsAlpha ==
    [][(op'.name \in {"erasePixel", "eraseRegion"} /\ img.channels # 4)
       => img'.data = img.data]_vars

\* C11: on an image of positive width and height, a getPixel or setPixel call
\* with a coordinate outside the image (x >= width or y >= height) accesses no
\* byte: the program carries on, no index outside the vector is read or
\* written, and no byte of the buffer changes.
PixelAccessGuarded ==
    [][(/\ op'.name \in {"setPixel", "getPixel"}
        /\ img.bmp_info_header.width > 0
        /\ img.bmp_info_header.height > 0
        /\ \/ op'.args[1] >= img.bmp_info_header.width
           \/ op'.args[2] >= img.bmp_info_header.height)
       => (st' = "ok" /\ ~oob' /\ img'.data = img.data)]_vars

\* The vector holds width * height * channels bytes, channels = bit_count / 8
\* being 3 or 4.
Layout(im) ==
    /\ im.channels = im.bmp_info_header.bit_count \div 8
    /\ im.channels \in {3, 4}
    /\ Len(im.data) = im.bmp_info_header.width * im.bmp_info_header.height * im.channels

SameHeader(a, b) ==
    /\ a.bmp_info_header.width = b.bmp_info_header.width
    /\ a.bmp_info_header.height = b.bmp_info_header.height
    /\ a.bmp_info_header.bit_count = b.bmp_info_header.bit_count
    /\ a.bmp_info_header.compression = b.bmp_info_header.compression

\* A file with the signature BM, 24 or 32 bits per pixel, and every row of
\* its pixel array.
WellFormed(f) ==
    /\ HasHeaders(f)
    /\ FileHeaderOf(SubSeq(f, 1, 14)).file_type = BM
    /\ LET ih == InfoHeaderOf(SubSeq(f, 15, 54))
       IN /\ ih.bit_count \in {24, 32}
          /\ ih.width >= 0
          /\ ih.height >= 0
          /\ Len(f) = FileHeaderOf(SubSeq(f, 1, 14)).offset_data
                        + PaddedStride(ih.width, ih.bit_count \div 8) * ih.height

Mutators == {"setPixel", "clear", "CopyFrom", "BlackWhite", "FlipX", "FlipY", "write"}

\* C12: the object BMP(width, height, has_alpha) or BMP(fname) of a well-formed
\* file builds holds width * height * channels bytes with channels = bit_count
\* / 8 in {3, 4}; setPixel, clear, CopyFrom (of a matching or a mismatching
\* image), BlackWhite, FlipX, FlipY and write keep that, and leave width,
\* height, bit_count and compression as they were.
LayoutKept ==
    [][/\ (st' = "ok" /\ op'.name = "BMP") => Layout(img')
       /\ (st' = "ok" /\ op'.name = "read" /\ op'.kind = "none" /\ WellFormed(file))
            => Layout(img')
       /\ (st = "ok" /\ st' = "ok" /\ op'.name \in Mutators)
            => /\ SameHeader(img, img')
               /\ Layout(img) => Layout(img')]_vars

\* An image that differs from the one its well-formed file holds has just
\* been through a CopyFrom of an image of another layout.
LayoutKeptWitness ==
    /\ st = "ok"
    /\ op.name = "CopyFrom"
    /\ op.kind = "mismatch"
    /\ WellFormed(file)
    /\ SameHeader(img, ReadCall(file, 0).img)
    /\ Layout(img)
    /\ Len(img.data) > 0
    /\ img.data # ReadCall(file, 0).img.data
====
